---- MODULE Spec2Model ----
(***************************************************************************)
(* A model of s3os: file-system-like routines over an S3 bucket            *)
(* (src/s3os/s3_file_ops.py, class S3os) and over the local file system    *)
(* (src/s3os/file_ops.py).                                                 *)
(*                                                                         *)
(* Python strings are sequences of one-character strings, so that prefix,  *)
(* substring, upper-casing, regular-expression and path operations are     *)
(* computed character by character as the code computes them.              *)
(***************************************************************************)
EXTENDS Integers, Sequences, FiniteSets, TLC

(***************************************************************************)
(* Bounds of the model.                                                    *)
(***************************************************************************)
\* The provider returns at most this many keys per listing page.  boto3's
\* default MaxKeys and the literal compared against KeyCount in S3os.exists
\* are both 1000; the model scales both to the same small number.
PageCap == 3
\* Most objects of the buckets the remote CSV aggregator is run on.
MaxCsvObjects == 2

(***************************************************************************)
(* Characters and strings                                                  *)
(***************************************************************************)
\* The characters the model uses, in ASCII order.
AsciiOrder ==
  << " ", "+", ".", "/",
     "0", "1", "2", "3", "4", "5", "6", "7", "8", "9", ">",
     "A", "B", "C", "D", "E", "F", "G", "H", "I", "J", "K", "L", "M",
     "N", "O", "P", "Q", "R", "S", "T", "U", "V", "W", "X", "Y", "Z", "_",
     "a", "b", "c", "d", "e", "f", "g", "h", "i", "j", "k", "l", "m",
     "n", "o", "p", "q", "r", "s", "t", "u", "v", "w", "x", "y", "z" >>

OrdTable ==
  [c \in {AsciiOrder[i] : i \in 1..Len(AsciiOrder)} |->
     CHOOSE i \in 1..Len(AsciiOrder) : AsciiOrder[i] = c]

\* The place of character c in that order.
Ord(c) == OrdTable[c]

IsDigit(c) == c \in {"0", "1", "2", "3", "4", "5", "6", "7", "8", "9"}

DigitVal(c) == Ord(c) - Ord("0")

DigitChar(d) == AsciiOrder[Ord("0") + d]

IsLower(c) == Ord(c) >= Ord("a") /\ Ord(c) <= Ord("z")

\* str.upper() on one character
UpperChar(c) == IF IsLower(c) THEN AsciiOrder[Ord(c) - Ord("a") + Ord("A")] ELSE c

\* str.upper()
Upper(s) == [i \in 1..Len(s) |-> UpperChar(s[i])]

\* s[i:j] with 1-based inclusive bounds
Slice(s, i, j) == [k \in 1..(j - i + 1) |-> s[i + k - 1]]

\* str.startswith
StartsWith(s, p) == Len(p) <= Len(s) /\ Slice(s, 1, Len(p)) = p

\* str.endswith
EndsWith(s, p) == Len(p) <= Len(s) /\ Slice(s, Len(s) - Len(p) + 1, Len(s)) = p

\* the Python operator `sub in s` on strings
Contains(s, sub) ==
  \E i \in 1..(Len(s) - Len(sub) + 1) : Slice(s, i, i + Len(sub) - 1) = sub

\* Lexicographic order of strings by character code (the order in which the
\* provider lists keys).
StrLess(a, b) ==
  \E i \in 1..(Len(b)) :
     /\ i <= Len(a) + 1
     /\ \A k \in 1..(i - 1) : a[k] = b[k]
     /\ \/ i = Len(a) + 1
        \/ (i <= Len(a) /\ Ord(a[i]) < Ord(b[i]))

\* The strings of a finite set in ascending order.
RECURSIVE SortStrings(_)
SortStrings(S) ==
  IF S = {} THEN <<>>
  ELSE LET m == CHOOSE x \in S : \A y \in S \ {x} : StrLess(x, y)
       IN  <<m>> \o SortStrings(S \ {m})

\* str(n) for an int n >= 0
RECURSIVE StrOfNat(_)
StrOfNat(n) ==
  IF n < 10 THEN <<DigitChar(n)>>
  ELSE StrOfNat(n \div 10) \o <<DigitChar(n % 10)>>

\* int(s) for a string of decimal digits
RECURSIVE IntOfDigits(_)
IntOfDigits(s) ==
  IF s = <<>> THEN 0
  ELSE 10 * IntOfDigits(Slice(s, 1, Len(s) - 1)) + DigitVal(s[Len(s)])

(***************************************************************************)
(* Python values returned by the routines                                  *)
(***************************************************************************)
PyNone == [t |-> "None", v |-> 0, s |-> <<>>, e |-> ""]
PyInt(n) == [t |-> "int", v |-> n, s |-> <<>>, e |-> ""]
PyStr(str) == [t |-> "str", v |-> 0, s |-> str, e |-> ""]
PyRaise(exc) == [t |-> "raise", v |-> 0, s |-> <<>>, e |-> exc]

\* str(x) for an int or a str x
PyStrOf(x) == IF x.t = "int" THEN StrOfNat(x.v) ELSE x.s

(***************************************************************************)
(* Regular expressions (module re), for patterns whose only special        *)
(* characters are "." and "+".                                             *)
(***************************************************************************)
\* re.compile: the pattern as a list of atoms, each a character (or "."
\* for any character) that is or is not repeated by a following "+".  A "+"
\* with nothing to repeat is re.error.
RECURSIVE ReAtoms(_)
ReAtoms(p) ==
  IF p = <<>> THEN <<>>
  ELSE IF Len(p) >= 2 /\ p[2] = "+"
       THEN <<[c |-> p[1], plus |-> TRUE]>> \o ReAtoms(Slice(p, 3, Len(p)))
       ELSE <<[c |-> p[1], plus |-> FALSE]>> \o ReAtoms(Slice(p, 2, Len(p)))

ReCompiles(p) == \A i \in 1..Len(p) : p[i] = "+" => (i > 1 /\ p[i - 1] # "+")

ReAtomMatches(a, ch) == a.c = "." \/ a.c = ch

\* Whether atoms[i..] match s starting at position j (not necessarily to the
\* end of s).
RECURSIVE ReMatchFrom(_, _, _, _)
ReMatchFrom(atoms, i, s, j) ==
  IF i > Len(atoms) THEN TRUE
  ELSE IF ~atoms[i].plus
       THEN /\ j <= Len(s)
            /\ ReAtomMatches(atoms[i], s[j])
            /\ ReMatchFrom(atoms, i + 1, s, j + 1)
       ELSE \E n \in 1..(Len(s) - j + 1) :
              /\ \A k \in j..(j + n - 1) : ReAtomMatches(atoms[i], s[k])
              /\ ReMatchFrom(atoms, i + 1, s, j + n)

\* pattern.match(s): a match anchored at the start of s
ReMatch(p, s) == ReMatchFrom(ReAtoms(p), 1, s, 1)

\* re.search(p, s): a match anywhere in s
ReSearch(p, s) == \E j \in 1..(Len(s) + 1) : ReMatchFrom(ReAtoms(p), 1, s, j)

(***************************************************************************)
(* State                                                                   *)
(***************************************************************************)
VARIABLES
  bucket,     \* the S3 bucket: a function from the keys present to objects
  pc,         \* where the running routine stands ("idle" between calls)
  call,       \* the routine last called and its arguments
  pre,        \* the bucket as it was when that routine was called
  ret,        \* what the routine last completed returned or raised
  keyCount,   \* KeyCount of the listing response S3os.exists last received
  fs,         \* the local file system: a set of [path, kind] entries
  gen,        \* the running get_list_of_file_paths_in_dir generator
  out,        \* the paths the generator has yielded so far, in order
  list_of_all_files, \* the keys S3os.read_all_csv... listed, in order
  idx,        \* how many of them its loop has been through
  all_df,     \* the tables a CSV aggregator has loaded so far, in order
  stack,      \* the call stack of S3os.download_dir
  downloads,  \* the client.download_file calls made so far, in order
  localDirs   \* the directories os.makedirs has created

vars == << bucket, pc, call, pre, ret, keyCount, fs, gen, out,
           list_of_all_files, idx, all_df, stack, downloads, localDirs >>

\* What the bucket routines, the local listing, the remote CSV aggregator and
\* download_dir respectively leave alone.
notBucketOps == << fs, gen, out, list_of_all_files, idx, all_df, stack, downloads, localDirs >>
notLocal == << bucket, pc, pre, keyCount, fs, stack, downloads, localDirs >>
notCsv == << bucket, pre, keyCount, fs, gen, out, stack, downloads, localDirs >>
notDownload == << pre, keyCount, fs, gen, out, list_of_all_files, idx, all_df >>

(***************************************************************************)
(* The bucket                                                              *)
(***************************************************************************)
\* An object: what its body is (tag) and how many bytes it has (size).
EmptyObject == [tag |-> 0, size |-> 0]

EmptyBucket == [k \in {} |-> EmptyObject]

\* put_object / Object.put / the destination side of a copy
PutObject(b, key, obj) ==
  [k \in (DOMAIN b) \cup {key} |-> IF k = key THEN obj ELSE b[k]]

\* Object.delete: removing a key that is absent is a no-op at the provider
DeleteObject(b, key) == [k \in (DOMAIN b) \ {key} |-> b[k]]

\* The keys of b that start with prefix, in the provider's listing order.
KeysUnder(b, prefix) == SortStrings({k \in DOMAIN b : StartsWith(k, prefix)})

\* client.list_objects_v2(Bucket, Prefix): one page, at most PageCap keys.
ListObjectsV2(b, prefix) ==
  LET all == KeysUnder(b, prefix)
      n == IF Len(all) > PageCap THEN PageCap ELSE Len(all)
  IN  [Contents |-> [i \in 1..n |-> [Key |-> all[i], Size |-> b[all[i]].size]],
       KeyCount |-> n,
       IsTruncated |-> Len(all) > PageCap]

(***************************************************************************)
(* S3os.exists                                                             *)
(***************************************************************************)
\* The loop `while size > power: size /= power; n += 1` on size = num/den.
RECURSIVE FormatLoop(_, _, _)
FormatLoop(num, den, n) ==
  IF num > 1024 * den THEN FormatLoop(num, den * 1024, n + 1)
  ELSE [num |-> num, den |-> den, n |-> n]

\* round(num/den, 2) in hundredths: to nearest, ties to even
RoundHundredths(num, den) ==
  LET q == (num * 100) \div den
      r == (num * 100) % den
  IN  IF 2 * r > den THEN q + 1
      ELSE IF 2 * r < den THEN q
      ELSE IF q % 2 = 0 THEN q ELSE q + 1

\* str(x) of the float x = h/100
StrOfHundredths(h) ==
  StrOfNat(h \div 100) \o <<".">> \o
    (IF h % 10 = 0 THEN <<DigitChar((h % 100) \div 10)>>
     ELSE <<DigitChar((h % 100) \div 10), DigitChar(h % 10)>>)

power_labels == [n \in 0..3 |-> << <<>>, <<"k">>, <<"M">>, <<"G">> >>[n + 1]]

\* _format_file_size(size) for an int size
FormatFileSize(size) ==
  LET r == FormatLoop(size, 1, 0)
  IN  IF r.n \notin DOMAIN power_labels THEN PyRaise("KeyError")
      ELSE PyStr((IF r.n = 0 THEN StrOfNat(size)
                  ELSE StrOfHundredths(RoundHundredths(r.num, r.den)))
                 \o <<" ">> \o power_labels[r.n] \o <<"B">>)

RECURSIVE SumMatching(_, _)
SumMatching(contents, key_prefix) ==
  IF contents = <<>> THEN 0
  ELSE (IF ReMatch(key_prefix, Head(contents).Key) THEN Head(contents).Size ELSE 0)
       + SumMatching(Tail(contents), key_prefix)

\* The tail of exists: the value returned for a formatted or plain size.
ExistsReturn(size, count) ==
  IF count = PageCap THEN PyStr(<<">">> \o PyStrOf(size)) ELSE size

\* S3os.exists(key_prefix, format_size) on bucket b: the value returned (or
\* the exception raised) and the KeyCount of the listing response.
Exists(b, key_prefix, format_size) ==
  LET response == ListObjectsV2(b, key_prefix)
      size == SumMatching(response.Contents, key_prefix)
      sized == IF format_size THEN FormatFileSize(size) ELSE PyInt(size)
  IN  [KeyCount |-> response.KeyCount,
       ret |-> IF ~ReCompiles(key_prefix) THEN PyRaise("re.error")
               ELSE IF size = 0 THEN PyNone
               ELSE IF sized.t = "raise" THEN sized
               ELSE ExistsReturn(sized, response.KeyCount)]

(***************************************************************************)
(* Bucket routines of S3os                                                 *)
(***************************************************************************)
\* The name the S3os object was constructed with.
bucket_name == <<"b">>

\* The methods class S3os defines.
S3osMethods ==
  { "listdir", "copy", "remove", "rename", "save_dataframe", "download_dir",
    "upload_dir", "exists", "create_if_not_exists",
    "read_all_csv_files_in_directory_as_one_df" }

\* Keys, key prefixes and object bodies the callers use.
Keys == { <<"a">>, <<"a", "a">>, <<"a", "+", "b">>, <<"b">> }
\* The keys copy and rename are called with.
CopyKeys == { <<"a">>, <<"b">> }
Prefixes == { <<>>, <<"a">>, <<"a", "+", "b">>, <<"b">>, <<"+">> }
Bodies == { [tag |-> 1, size |-> 100], [tag |-> 2, size |-> 1924] }

NoCall == [op |-> "none", a1 |-> <<>>, a2 |-> <<>>, fmt |-> FALSE]

\* S3os.save_dataframe(df_to_save, file_path): body is the CSV text of the
\* table, which is never empty.
SaveDataframe(file_path, body) ==
  /\ pc = "idle"
  /\ call' = [op |-> "save_dataframe", a1 |-> file_path, a2 |-> <<>>, fmt |-> FALSE]
  /\ pre' = bucket
  /\ bucket' = PutObject(bucket, file_path, body)
  /\ ret' = PyNone
  /\ UNCHANGED << pc, keyCount >>
  /\ UNCHANGED notBucketOps

\* S3os.copy(copy_this_key, to_here) on bucket b: the bucket afterwards and
\* what the call returns; a missing source is the provider's ClientError.
CopyResult(b, copy_this_key, to_here) ==
  IF copy_this_key \in DOMAIN b
  THEN [bucket |-> PutObject(b, to_here, b[copy_this_key]), ret |-> PyNone]
  ELSE [bucket |-> b, ret |-> PyRaise("ClientError")]

Copy(copy_this_key, to_here) ==
  /\ pc = "idle"
  /\ call' = [op |-> "copy", a1 |-> copy_this_key, a2 |-> to_here, fmt |-> FALSE]
  /\ pre' = bucket
  /\ LET r == CopyResult(bucket, copy_this_key, to_here)
     IN  bucket' = r.bucket /\ ret' = r.ret
  /\ UNCHANGED << pc, keyCount >>
  /\ UNCHANGED notBucketOps

\* The response of obj.delete(), a dict.
DeleteResponse == [t |-> "dict", v |-> 0, s |-> <<>>, e |-> ""]

\* S3os.remove(this_key): returns the provider's response
Remove(this_key) ==
  /\ pc = "idle"
  /\ call' = [op |-> "remove", a1 |-> this_key, a2 |-> <<>>, fmt |-> FALSE]
  /\ pre' = bucket
  /\ bucket' = DeleteObject(bucket, this_key)
  /\ ret' = DeleteResponse
  /\ UNCHANGED << pc, keyCount >>
  /\ UNCHANGED notBucketOps

\* S3os.rename, first statement: self.copy(old_key, new_key).  When copy
\* raises, rename ends there.
RenameCopy(old_key, new_key) ==
  /\ pc = "idle"
  /\ call' = [op |-> "rename", a1 |-> old_key, a2 |-> new_key, fmt |-> FALSE]
  /\ pre' = bucket
  /\ LET r == CopyResult(bucket, old_key, new_key)
     IN  /\ bucket' = r.bucket
         /\ ret' = r.ret
         /\ pc' = IF r.ret.t = "raise" THEN "idle" ELSE "rename_copied"
  /\ UNCHANGED keyCount
  /\ UNCHANGED notBucketOps

\* What looking up attribute `name` on the S3os object and calling it with
\* this_key does to bucket b.  remove is the only deleting method the class
\* defines; a name the class does not define is an AttributeError.
CallMethod(b, name, this_key) ==
  IF name \notin S3osMethods THEN [bucket |-> b, ret |-> PyRaise("AttributeError")]
  ELSE IF name = "remove"
       THEN [bucket |-> DeleteObject(b, this_key), ret |-> DeleteResponse]
  ELSE [bucket |-> b, ret |-> PyRaise("TypeError")]

\* S3os.rename, second statement: self.delete(old_key), then return.
RenameDelete ==
  /\ pc = "rename_copied"
  /\ LET r == CallMethod(bucket, "delete", call.a1)
     IN  /\ bucket' = r.bucket
         /\ ret' = r.ret
  /\ pc' = "idle"
  /\ UNCHANGED << call, pre, keyCount >>
  /\ UNCHANGED notBucketOps

\* S3os.exists(key_prefix, format_size)
ExistsCall(key_prefix, format_size) ==
  /\ pc = "idle"
  /\ call' = [op |-> "exists", a1 |-> key_prefix, a2 |-> <<>>, fmt |-> format_size]
  /\ pre' = bucket
  /\ LET r == Exists(bucket, key_prefix, format_size)
     IN  ret' = r.ret /\ keyCount' = r.KeyCount
  /\ UNCHANGED << bucket, pc >>
  /\ UNCHANGED notBucketOps

\* The existence test of create_if_not_exists: self.exists(self.bucket_name, key),
\* that is key_prefix = bucket_name and format_size = key (a non-empty
\* string is true).
CreateTest(b, key) == Exists(b, bucket_name, key # <<>>).ret

\* S3os.create_if_not_exists(key)
CreateIfNotExists(key) ==
  /\ pc = "idle"
  /\ call' = [op |-> "create_if_not_exists", a1 |-> key, a2 |-> <<>>, fmt |-> FALSE]
  /\ pre' = bucket
  /\ LET test == CreateTest(bucket, key)
     IN  IF test.t = "raise"
         THEN bucket' = bucket /\ ret' = test
         ELSE IF test = PyNone
         THEN bucket' = PutObject(bucket, key, EmptyObject) /\ ret' = PyNone
         ELSE bucket' = bucket /\ ret' = PyNone
  /\ UNCHANGED << pc, keyCount >>
  /\ UNCHANGED notBucketOps

(***************************************************************************)
(* Paths and the local file system                                         *)
(***************************************************************************)
\* The index of the last "/" of p, or 0.
LastSlash(p) ==
  IF \E i \in 1..Len(p) : p[i] = "/"
  THEN CHOOSE i \in 1..Len(p) : p[i] = "/" /\ \A k \in (i + 1)..Len(p) : p[k] # "/"
  ELSE 0

\* os.path.basename
Basename(p) == Slice(p, LastSlash(p) + 1, Len(p))

RECURSIVE RStripSlash(_)
RStripSlash(p) ==
  IF p # <<>> /\ p[Len(p)] = "/" THEN RStripSlash(Slice(p, 1, Len(p) - 1)) ELSE p

\* os.path.dirname
Dirname(p) ==
  LET head == Slice(p, 1, LastSlash(p))
  IN  IF RStripSlash(head) = <<>> THEN head ELSE RStripSlash(head)

\* os.path.join(a, b)
Join2(a, b) ==
  IF StartsWith(b, <<"/">>) THEN b
  ELSE IF a = <<>> \/ EndsWith(a, <<"/">>) THEN a \o b
  ELSE a \o <<"/">> \o b

\* os.path.join(a, b, c)
Join3(a, b, c) == Join2(Join2(a, b), c)

\* Whether the file system has a directory at path d (given with or without
\* a trailing separator).
IsDir(d) == \E e \in fs : e.kind = "dir" /\ e.path = RStripSlash(d)

\* The entries directly inside directory d.
Children(d) == {e \in fs : Dirname(e.path) = RStripSlash(d) /\ e.path # RStripSlash(d)}

\* glob.glob(os.path.join(directory, '*')): the entries of the directory
\* whose names do not start with ".", as paths joined to the directory as
\* given; the order is the file system's.
Glob(directory) ==
  IF ~IsDir(directory) THEN {}
  ELSE { Join2(directory, Basename(e.path)) :
           e \in {c \in Children(directory) : Basename(c.path)[1] # "."} }

\* os.walk(top), top-down: top, then the walk of each of its
\* subdirectories, in whichever order the file system lists them.
RECURSIVE WalkOrders(_), WalkForest(_)
WalkOrders(top) ==
  IF ~IsDir(top) THEN {<<>>}
  ELSE { <<top>> \o f :
           f \in WalkForest({ Join2(top, Basename(e.path)) :
                                e \in {c \in Children(top) : c.kind = "dir"} }) }
WalkForest(S) ==
  IF S = {} THEN {<<>>}
  ELSE UNION { { w \o rest : w \in WalkOrders(d), rest \in WalkForest(S \ {d}) } :
               d \in S }

ipynb_checkpoints ==
  << ".", "i", "p", "y", "n", "b", "_", "c", "h", "e", "c", "k", "p", "o", "i", "n", "t", "s" >>

\* get_list_of_subdir_in_dir, given the order in which os.walk visited the
\* directories.
RECURSIVE SubdirList(_)
SubdirList(walk) ==
  IF walk = <<>> THEN <<>>
  ELSE LET root == IF EndsWith(Head(walk), <<"/">>) THEN Head(walk)
                   ELSE Head(walk) \o <<"/">>
       IN  (IF ~Contains(root, ipynb_checkpoints) THEN <<root>> ELSE <<>>)
           \o SubdirList(Tail(walk))

(***************************************************************************)
(* get_list_of_file_paths_in_dir                                           *)
(***************************************************************************)
\* The substrings argument: None, a str or a list of str.
NoFilter == [t |-> "None", s |-> <<>>, l |-> <<>>]
StrFilter(s) == [t |-> "str", s |-> s, l |-> <<>>]
ListFilter(l) == [t |-> "list", s |-> <<>>, l |-> l]

\* s.split(' ')
RECURSIVE SplitSpace(_)
SplitSpace(s) ==
  IF \E i \in 1..Len(s) : s[i] = " "
  THEN LET i == CHOOSE j \in 1..Len(s) : s[j] = " " /\ \A k \in 1..(j - 1) : s[k] # " "
       IN  <<Slice(s, 1, i - 1)>> \o SplitSpace(Slice(s, i + 1, Len(s)))
  ELSE <<s>>

\* The test of line 86: regex mode with a single str, which the branch
\* that searches the base name is taken on.
RegexWithStr(substrings, regex) == regex /\ substrings.t = "str"

\* The test of line 84: regex mode with a list of substrings.
RegexWithList(substrings, regex) == regex /\ substrings.t = "list"

\* Whether the body of the function, past line 84, yields path f.
Yields(f, substrings, regex) ==
  IF regex
  THEN substrings.t = "str" /\ ReSearch(substrings.s, Basename(f))
  ELSE IF substrings.t = "None" THEN TRUE
  ELSE LET subs == IF substrings.t = "str" THEN SplitSpace(substrings.s)
                   ELSE substrings.l
       IN  \A i \in 1..Len(subs) : Contains(Upper(f), Upper(subs[i]))

\* The paths one pass over a directory yields (the function with
\* subfolders=False), when it does not raise.
FlatYield(directory, substrings, regex) ==
  {f \in Glob(directory) : Yields(f, substrings, regex)}

IdleGen ==
  [status |-> "idle", consumer |-> "none", directory |-> <<>>,
   substrings |-> NoFilter, subfolders |-> FALSE, regex |-> FALSE,
   todo |-> <<>>, cur |-> {}]

\* The directories a call passes over, in order: with subfolders, each
\* directory of the subdirectory list (a nested call with subfolders=False);
\* then, always, the directory itself.
Passes(directory, subfolders, walk) ==
  (IF subfolders THEN SubdirList(walk) ELSE <<>>) \o <<directory>>

NoRoutineRunning == pc = "idle" /\ gen.status # "running"

\* A caller starts iterating get_list_of_file_paths_in_dir(directory,
\* substrings, subfolders, regex); walk is the order in which os.walk visits
\* the directories.
ListStart(directory, substrings, subfolders, regex, walk) ==
  /\ NoRoutineRunning
  /\ gen' = [status |-> "running", consumer |-> "list", directory |-> directory,
             substrings |-> substrings, subfolders |-> subfolders, regex |-> regex,
             todo |-> Passes(directory, subfolders, walk), cur |-> {}]
  /\ call' = [op |-> "get_list_of_file_paths_in_dir", a1 |-> directory,
              a2 |-> <<>>, fmt |-> FALSE]
  /\ out' = <<>>
  /\ ret' = PyNone
  /\ list_of_all_files' = <<>> /\ idx' = 0 /\ all_df' = <<>>
  /\ UNCHANGED notLocal

\* The generator enters its next pass: lists the directory, then raises or
\* has the matching paths to yield.
GenAdvance ==
  /\ gen.status = "running"
  /\ gen.cur = {}
  /\ gen.todo # <<>>
  /\ IF RegexWithList(gen.substrings, gen.regex)
     THEN /\ gen' = [gen EXCEPT !.status = "raised"]
          /\ ret' = PyRaise("Exception")
     ELSE /\ gen' = [gen EXCEPT !.todo = Tail(gen.todo),
                                !.cur = FlatYield(Head(gen.todo), gen.substrings, gen.regex)]
          /\ ret' = ret
  /\ UNCHANGED << call, out, all_df, list_of_all_files, idx >>
  /\ UNCHANGED notLocal

\* pd.concat(all_df): the row-wise concatenation; ValueError ("No objects
\* to concatenate") for an empty list.
PdConcatEmptyOk(tables) == [t |-> "table", v |-> Len(tables), s |-> tables, e |-> ""]

PdConcat(tables) ==
  IF tables = <<>> THEN PyRaise("ValueError")
  ELSE [t |-> "table", v |-> Len(tables), s |-> tables, e |-> ""]

\* The generator yields its next path f.  The loop of
\* read_all_csv_files_in_directory_as_one_df opens and parses it, which
\* fails on a directory.
GenYield ==
  /\ gen.status = "running"
  /\ \E f \in gen.cur :
       /\ out' = Append(out, f)
       /\ IF gen.consumer = "read_all" /\ IsDir(f)
          THEN /\ gen' = [gen EXCEPT !.status = "raised", !.cur = gen.cur \ {f}]
               /\ ret' = PyRaise("IsADirectoryError")
               /\ all_df' = all_df
          ELSE /\ gen' = [gen EXCEPT !.cur = gen.cur \ {f}]
               /\ ret' = ret
               /\ all_df' = IF gen.consumer = "read_all" THEN Append(all_df, f)
                            ELSE all_df
  /\ UNCHANGED << call, list_of_all_files, idx >>
  /\ UNCHANGED notLocal

\* The generator is exhausted.  read_all_csv_files_in_directory_as_one_df
\* then concatenates what it loaded.
GenEnd ==
  /\ gen.status = "running"
  /\ gen.cur = {}
  /\ gen.todo = <<>>
  /\ IF gen.consumer = "read_all"
     THEN /\ ret' = PdConcat(all_df)
          /\ gen' = [gen EXCEPT !.status = IF PdConcat(all_df).t = "raise" THEN "raised"
                                           ELSE "done"]
     ELSE /\ ret' = ret
          /\ gen' = [gen EXCEPT !.status = "done"]
  /\ UNCHANGED << call, out, all_df, list_of_all_files, idx >>
  /\ UNCHANGED notLocal

\* file_ops.read_all_csv_files_in_directory_as_one_df(folder_path,
\* substrings, subfolders) starts: it iterates the listing in literal mode.
LocalReadAllStart(folder_path, substrings, subfolders, walk) ==
  /\ NoRoutineRunning
  /\ gen' = [status |-> "running", consumer |-> "read_all", directory |-> folder_path,
             substrings |-> substrings, subfolders |-> subfolders, regex |-> FALSE,
             todo |-> Passes(folder_path, subfolders, walk), cur |-> {}]
  /\ call' = [op |-> "read_all_csv_local", a1 |-> folder_path, a2 |-> <<>>,
              fmt |-> FALSE]
  /\ out' = <<>>
  /\ ret' = PyNone
  /\ list_of_all_files' = <<>> /\ idx' = 0 /\ all_df' = <<>>
  /\ UNCHANGED notLocal

(***************************************************************************)
(* S3os.listdir and S3os.read_all_csv_files_in_directory_as_one_df         *)
(***************************************************************************)
\* S3os.listdir(dir_path, substring): every key under dir_path (the bucket
\* resource pages through the whole listing), kept if substring is None or
\* occurs in the key.
RECURSIVE KeepContaining(_, _)
KeepContaining(keys, substring) ==
  IF keys = <<>> THEN <<>>
  ELSE (IF substring.t = "None" \/ Contains(Head(keys), substring.s)
        THEN <<Head(keys)>> ELSE <<>>) \o KeepContaining(Tail(keys), substring)

Listdir(b, dir_path, substring) == KeepContaining(KeysUnder(b, dir_path), substring)

\* bool(r_test.search(file)) for r_test = re.compile('[0-9]+')
HasDigits(file) == \E i \in 1..Len(file) : IsDigit(file[i])

\* file[start_of_n:end_of_n]: the leftmost, longest run of digits of file
FirstDigitRun(file) ==
  LET start == CHOOSE i \in 1..Len(file) :
                 IsDigit(file[i]) /\ \A k \in 1..(i - 1) : ~IsDigit(file[k])
      end == CHOOSE j \in start..Len(file) :
               /\ \A k \in start..j : IsDigit(file[k])
               /\ (j = Len(file) \/ ~IsDigit(file[j + 1]))
  IN  Slice(file, start, end)

dot_csv == << ".", "c", "s", "v" >>

\* Whether the loop of the remote aggregator loads the listed key `file`.
Loads(file) ==
  /\ EndsWith(file, dot_csv)
  /\ HasDigits(file)
  /\ IntOfDigits(FirstDigitRun(file)) # 0

\* S3os.read_all_csv_files_in_directory_as_one_df(dir_path) starts.
CsvStart(dir_path) ==
  /\ NoRoutineRunning
  /\ pc' = "read_csv"
  /\ call' = [op |-> "read_all_csv", a1 |-> dir_path, a2 |-> <<>>, fmt |-> FALSE]
  /\ list_of_all_files' = Listdir(bucket, dir_path, NoFilter)
  /\ idx' = 0
  /\ all_df' = <<>>
  /\ ret' = PyNone
  /\ UNCHANGED notCsv

\* One turn of its loop: the next listed key is loaded or passed over.
CsvStep ==
  /\ pc = "read_csv"
  /\ idx < Len(list_of_all_files)
  /\ LET file == list_of_all_files[idx + 1]
     IN  all_df' = IF Loads(file) THEN Append(all_df, file) ELSE all_df
  /\ idx' = idx + 1
  /\ UNCHANGED << pc, call, ret, list_of_all_files >>
  /\ UNCHANGED notCsv

\* After the loop: df = pd.concat(all_df, axis=0); return df.
CsvConcat ==
  /\ pc = "read_csv"
  /\ idx = Len(list_of_all_files)
  /\ ret' = PdConcat(all_df)
  /\ pc' = "idle"
  /\ UNCHANGED << call, list_of_all_files, idx, all_df >>
  /\ UNCHANGED notCsv

(***************************************************************************)
(* S3os.download_dir                                                       *)
(***************************************************************************)
os_sep == <<"/">>

\* What a delimited listing shows for key under prefix: the key itself, or
\* the common prefix that rolls it up (up to the first delimiter past the
\* prefix).
ListingItem(key, prefix) ==
  LET rest == Slice(key, Len(prefix) + 1, Len(key))
  IN  IF \E i \in 1..Len(rest) : rest[i] = "/"
      THEN LET i == CHOOSE j \in 1..Len(rest) :
                      rest[j] = "/" /\ \A k \in 1..(j - 1) : rest[k] # "/"
           IN  [kind |-> "prefix", name |-> prefix \o Slice(rest, 1, i)]
      ELSE [kind |-> "key", name |-> key]

\* A listing cut into pages of at most PageCap items.
RECURSIVE Chunks(_)
Chunks(items) ==
  IF Len(items) <= PageCap THEN (IF items = <<>> THEN <<>> ELSE <<items>>)
  ELSE <<SubSeq(items, 1, PageCap)>> \o Chunks(SubSeq(items, PageCap + 1, Len(items)))

\* paginator.paginate(Bucket, Delimiter=os.sep, Prefix): the listing in key
\* order, at most PageCap items (keys and common prefixes) a page.
Pages(b, prefix) ==
  LET items == { ListingItem(k, prefix) : k \in {k \in DOMAIN b : StartsWith(k, prefix)} }
      names == SortStrings({ it.name : it \in items })
      kindOf(n) == (CHOOSE it \in items : it.name = n).kind
  IN  Chunks([i \in 1..Len(names) |-> [kind |-> kindOf(names[i]), name |-> names[i]]])

\* result.get('CommonPrefixes') and result.get('Contents') of a page
CommonPrefixes(page) == SelectSeq(page, LAMBDA it : it.kind = "prefix")
Contents(page) == SelectSeq(page, LAMBDA it : it.kind = "key")

\* The frame of a call download_dir(prefix, ...) before its first page.
Frame(b, prefix) ==
  [prefix |-> prefix, pages |-> Pages(b, prefix), cps |-> <<>>, files |-> <<>>]

\* this_full_file_path of line 114
FullFilePath(save_to_this_dir, this_file_path) ==
  Join3(save_to_this_dir, os_sep, this_file_path)

\* d and the directories above it
RECURSIVE Ancestors(_)
Ancestors(d) == IF Dirname(d) = d \/ d = <<>> THEN {d} ELSE {d} \cup Ancestors(Dirname(d))

\* os.path.exists(this_dir), for a local file system that starts with the
\* root directory alone
DirExists(d) == d = <<"/">> \/ d \in localDirs

Top == stack[Len(stack)]

SetTop(f) == [stack EXCEPT ![Len(stack)] = f]

\* S3os.download_dir(download_this_s3_dir, save_to_this_dir) is called.
DownloadStart(download_this_s3_dir, save_to_this_dir) ==
  /\ NoRoutineRunning
  /\ pc' = "download"
  /\ call' = [op |-> "download_dir", a1 |-> download_this_s3_dir,
              a2 |-> save_to_this_dir, fmt |-> FALSE]
  /\ stack' = <<Frame(bucket, download_this_s3_dir)>>
  /\ downloads' = <<>>
  /\ localDirs' = {}
  /\ ret' = PyNone
  /\ UNCHANGED bucket
  /\ UNCHANGED notDownload

\* for result in paginated_results: the next page
DownloadNextPage ==
  /\ pc = "download"
  /\ Top.cps = <<>> /\ Top.files = <<>> /\ Top.pages # <<>>
  /\ stack' = SetTop([Top EXCEPT !.pages = Tail(Top.pages),
                                 !.cps = CommonPrefixes(Head(Top.pages)),
                                 !.files = Contents(Head(Top.pages))])
  /\ UNCHANGED << bucket, pc, call, ret, downloads, localDirs >>
  /\ UNCHANGED notDownload

\* self.download_dir(subdir.get('Prefix'), save_to_this_dir)
DownloadRecurse ==
  /\ pc = "download"
  /\ Top.cps # <<>>
  /\ stack' = Append(SetTop([Top EXCEPT !.cps = Tail(Top.cps)]),
                     Frame(bucket, Head(Top.cps).name))
  /\ UNCHANGED << bucket, pc, call, ret, downloads, localDirs >>
  /\ UNCHANGED notDownload

\* One turn of `for file in result.get('Contents')`
DownloadFile ==
  /\ pc = "download"
  /\ Top.cps = <<>> /\ Top.files # <<>>
  /\ LET this_file_path == Head(Top.files).name
         this_full_file_path == FullFilePath(call.a2, this_file_path)
         this_dir == Dirname(this_full_file_path)
     IN  /\ localDirs' = IF ~DirExists(this_dir)
                         THEN localDirs \cup (Ancestors(this_dir) \ {<<"/">>})
                         ELSE localDirs
         /\ downloads' = IF EndsWith(this_file_path, <<"/">>) THEN downloads
                         ELSE Append(downloads, [key |-> this_file_path,
                                                 path |-> this_full_file_path])
  /\ stack' = SetTop([Top EXCEPT !.files = Tail(Top.files)])
  /\ UNCHANGED << bucket, pc, call, ret >>
  /\ UNCHANGED notDownload

\* return: the innermost call is through its pages
DownloadReturn ==
  /\ pc = "download"
  /\ Top.cps = <<>> /\ Top.files = <<>> /\ Top.pages = <<>>
  /\ stack' = SubSeq(stack, 1, Len(stack) - 1)
  /\ pc' = IF Len(stack) = 1 THEN "idle" ELSE "download"
  /\ UNCHANGED << bucket, call, ret, downloads, localDirs >>
  /\ UNCHANGED notDownload

(***************************************************************************)
(* Specifications                                                          *)
(***************************************************************************)
RootEntry == [path |-> <<"r">>, kind |-> "dir"]

\* No routine has run yet.
Quiet ==
  /\ pc = "idle"
  /\ call = NoCall
  /\ pre = EmptyBucket
  /\ ret = PyNone
  /\ keyCount = 0
  /\ gen = IdleGen
  /\ out = <<>>
  /\ list_of_all_files = <<>>
  /\ idx = 0
  /\ all_df = <<>>
  /\ stack = <<>>
  /\ downloads = <<>>
  /\ localDirs = {}

\* --- The bucket routines, from an empty bucket -------------------------
Init ==
  /\ Quiet
  /\ bucket = EmptyBucket
  /\ fs = {RootEntry}

Next ==
  \/ \E k \in Keys, body \in Bodies : SaveDataframe(k, body)
  \/ \E k1 \in CopyKeys, k2 \in CopyKeys : Copy(k1, k2)
  \/ \E k \in Keys : Remove(k)
  \/ \E k1 \in CopyKeys, k2 \in CopyKeys : RenameCopy(k1, k2)
  \/ RenameDelete
  \/ \E p \in Prefixes, f \in BOOLEAN : ExistsCall(p, f)
  \/ \E k \in Keys : CreateIfNotExists(k)

Spec == Init /\ [][Next]_vars

\* --- Local listing --------------------------------------------------------
File(p) == [path |-> p, kind |-> "file"]
Dir(p) == [path |-> p, kind |-> "dir"]

r_a_csv == <<"r", "/", "a">> \o dot_csv
r_d == <<"r", "/", "d">>
r_d_a_csv == r_d \o <<"/", "a">> \o dot_csv
r_d_e == r_d \o <<"/", "e">>
r_ckpt == <<"r", "/">> \o ipynb_checkpoints
r_ckpt_a_csv == r_ckpt \o <<"/", "a">> \o dot_csv

\* The local trees under r that the listing is run on.
Trees ==
  { {RootEntry} \cup A \cup B \cup C :
      A \in SUBSET {File(r_a_csv)},
      B \in {{}} \cup { {Dir(r_d)} \cup X \cup Y :
                          X \in SUBSET {File(r_d_a_csv)},
                          Y \in SUBSET {Dir(r_d_e)} },
      C \in {{}, {Dir(r_ckpt), File(r_ckpt_a_csv)}} }

Directories == { <<"r">>, <<"r", "/">>, r_d }

Filters ==
  { NoFilter, StrFilter(dot_csv), StrFilter(<<"a", " ", "r">>),
    ListFilter(<< <<"d">> >>), ListFilter(<< <<"A">>, <<".", "C", "S", "V">> >>) }

AggregatorFilters == { StrFilter(dot_csv), ListFilter(<< <<"d">> >>) }

\* The keys of the buckets the remote aggregator is run on.
CsvKeys ==
  { <<"x", "0">> \o dot_csv, <<"x", "5">> \o dot_csv,
    <<"d", "0", "/", "x", "5">> \o dot_csv, <<"d", "2", "/", "x", "0">> \o dot_csv,
    <<"x", "5", ".", "t", "x", "t">>, <<"x">> \o dot_csv }

CsvPrefixes == { <<>>, <<"d", "0", "/">>, <<"x">> }

BucketOf(keys) == [k \in keys |-> [tag |-> 1, size |-> 100]]

InitFiles ==
  /\ Quiet
  /\ bucket = EmptyBucket
  /\ fs \in Trees

\* A caller iterates the listing of one of the directories.
ListCall ==
  \E d \in Directories : \E walk \in WalkOrders(d) :
    \E s \in Filters, sub \in BOOLEAN, re \in BOOLEAN : ListStart(d, s, sub, re, walk)

NextFiles ==
  \/ ListCall
  \/ GenAdvance
  \/ GenYield
  \/ GenEnd

SpecFiles == InitFiles /\ [][NextFiles]_vars

\* --- The two CSV aggregators ---------------------------------------------
AggregatorTrees ==
  { {RootEntry} \cup A \cup B :
      A \in SUBSET {File(r_a_csv)},
      B \in {{}, {Dir(r_d)}, {Dir(r_d), File(r_d_a_csv)}} }

AggregatorDirectories == { <<"r">>, r_d }

InitAggregate ==
  /\ Quiet
  /\ fs \in AggregatorTrees
  /\ bucket \in { BucketOf(ks) :
                    ks \in {s \in SUBSET CsvKeys : Cardinality(s) <= MaxCsvObjects} }

LocalReadAllCall ==
  \E d \in AggregatorDirectories : \E walk \in WalkOrders(d) :
    \E s \in AggregatorFilters, sub \in BOOLEAN : LocalReadAllStart(d, s, sub, walk)

NextAggregate ==
  \/ LocalReadAllCall
  \/ GenAdvance
  \/ GenYield
  \/ GenEnd
  \/ \E p \in CsvPrefixes : CsvStart(p)
  \/ CsvStep
  \/ CsvConcat

SpecAggregate == InitAggregate /\ [][NextAggregate]_vars

\* --- download_dir --------------------------------------------------------
\* The keys of the buckets download_dir is run on: files, a directory
\* marker, nested prefixes.  No key is at once a file and the directory
\* of another.
DownloadKeys ==
  { <<"e">>, <<"f">>, <<"d", "/">>, <<"d", "/", "f">>, <<"d", "/", "e", "/", "g">>,
    <<"d", "x">> }

DownloadPrefixes == { <<>>, <<"d", "/">>, <<"d">> }

LocalRoots == { <<"o", "u", "t">>, <<"o", "u", "t", "/">>, <<"/">> }

InitDownload ==
  /\ Quiet
  /\ fs = {RootEntry}
  /\ bucket \in { BucketOf(ks) : ks \in SUBSET DownloadKeys }

NextDownload ==
  \/ \E p \in DownloadPrefixes, root \in LocalRoots : DownloadStart(p, root)
  \/ DownloadNextPage
  \/ DownloadRecurse
  \/ DownloadFile
  \/ DownloadReturn

SpecDownload == InitDownload /\ [][NextDownload]_vars

(***************************************************************************)
(* Properties                                                              *)
(***************************************************************************)
Range(seq) == { seq[i] : i \in 1..Len(seq) }

RECURSIVE SumSizes(_, _)
SumSizes(b, keys) ==
  IF keys = {} THEN 0
  ELSE LET k == CHOOSE x \in keys : TRUE
       IN  b[k].size + SumSizes(b, keys \ {k})

\* C1: rename(old_key, new_key) is copy-then-delete-old.  Once a rename of
\* an existing old_key to a different new_key has completed, new_key holds
\* the content old_key had and old_key is gone; both keys are present only
\* between the copy step and the delete step.
RenameCopiesThenDeletes ==
  (call.op = "rename" /\ call.a1 \in DOMAIN pre /\ call.a1 # call.a2) =>
     /\ pc = "idle" =>
          /\ call.a2 \in DOMAIN bucket
          /\ bucket[call.a2] = pre[call.a1]
          /\ call.a1 \notin DOMAIN bucket
     /\ (call.a1 \in DOMAIN bucket /\ call.a2 \in DOMAIN bucket) => pc = "rename_copied"

\* C2: create_if_not_exists(key) tests the existence of that key: if an
\* object is at key the bucket is left as it was, and if none is an empty
\* object is created at key and nothing else changes.
CreateIfNotExistsTestsKey ==
  (pc = "idle" /\ call.op = "create_if_not_exists") =>
     bucket = IF call.a1 \in DOMAIN pre THEN pre
              ELSE PutObject(pre, call.a1, EmptyObject)

\* The greater-than result of exists: a str that starts with ">".
IsGreaterThan(r) == r.t = "str" /\ r.s # <<>> /\ r.s[1] = ">"

\* C3: whenever the listing exists received was a full page (KeyCount equal
\* to the page cap), exists returned a greater-than result, never an exact
\* value or absence, whatever format_size and the object sizes.
FullPageIsGreaterThan ==
  (call.op = "exists" /\ keyCount = PageCap) => IsGreaterThan(ret)

\* C4: for a listing shorter than a page and format_size=False, exists
\* returns None exactly when no key of the bucket starts with key_prefix and
\* otherwise the sum of the sizes of all objects whose key starts with it.
ExistsIsExactPrefixSum ==
  (call.op = "exists" /\ ~call.fmt /\ keyCount < PageCap) =>
     LET under == {k \in DOMAIN bucket : StartsWith(k, call.a1)}
     IN  ret = IF under = {} THEN PyNone ELSE PyInt(SumSizes(bucket, under))

\* Every string of subs occurs, case-insensitively, in name.
AllOccurIn(subs, name) ==
  \A i \in 1..Len(subs) : Contains(Upper(name), Upper(subs[i]))

\* C5: in literal mode with a list of substrings, the listing yields a
\* candidate exactly when every substring occurs, case-insensitively, in the
\* candidate's base name; with no filter it yields every candidate.
LiteralListMatchesBaseName ==
  (call.op = "get_list_of_file_paths_in_dir" /\ ~gen.regex) =>
     /\ gen.substrings.t = "list" =>
          /\ \A i \in 1..Len(out) : AllOccurIn(gen.substrings.l, Basename(out[i]))
          /\ (gen.status = "done" /\ ~gen.subfolders) =>
               \A f \in Glob(gen.directory) :
                  AllOccurIn(gen.substrings.l, Basename(f)) => f \in Range(out)
     /\ (gen.substrings.t = "None" /\ gen.status = "done" /\ ~gen.subfolders) =>
          Range(out) = Glob(gen.directory)

\* C6: a listing asked for in regex mode with a list filter yields no path
\* and never completes: all it can do is raise, and what it raises is the
\* Exception of line 85; recursive or not, whatever the directory holds.
RegexWithListFails ==
  (call.op = "get_list_of_file_paths_in_dir" /\ gen.regex /\ gen.substrings.t = "list") =>
     /\ out = <<>>
     /\ gen.status \in {"running", "raised"}
     /\ gen.status = "running" => (gen.cur = {} /\ gen.todo # <<>>)
     /\ gen.status = "raised" => ret = PyRaise("Exception")

\* A recursive listing in regex mode with a list filter, over a directory
\* that has entries, has raised.
RegexWithListRaised ==
  /\ call.op = "get_list_of_file_paths_in_dir"
  /\ gen.regex /\ gen.substrings.t = "list" /\ gen.subfolders
  /\ Glob(gen.directory) # {}
  /\ gen.status = "raised"

\* C7: the remote aggregator loads exactly the listed keys that end in
\* ".csv" and whose file name has a digit run, the first of which is not
\* zero, whatever digits the directory part of the key has.
RemoteLoadsByFileName ==
  (pc = "idle" /\ call.op = "read_all_csv") =>
     Range(all_df) =
       { k \in Range(list_of_all_files) :
           /\ EndsWith(k, dot_csv)
           /\ HasDigits(Basename(k))
           /\ IntOfDigits(FirstDigitRun(Basename(k))) # 0 }

\* C8: an aggregator that selected no file to load fails with the
\* ValueError of pd.concat (EmptyAggregation); neither aggregator returns a
\* table made of no file.  Said of the local aggregator (nothing yielded by
\* the listing) and of the remote one (nothing loaded by the loop).
EmptySelectionFails ==
  /\ (call.op = "read_all_csv_local" /\ gen.status \in {"done", "raised"} /\ out = <<>>) =>
        (gen.status = "raised" /\ ret = PyRaise("ValueError"))
  /\ (call.op = "read_all_csv" /\ pc = "idle" /\ all_df = <<>>) =>
        ret = PyRaise("ValueError")
  /\ ret.t = "table" => ret.v > 0

\* The local aggregator has failed on a directory in which nothing matched
\* its filter, and after it the remote aggregator has failed on a listing
\* all of whose keys it passed over.
BothAggregatorsFailedEmpty ==
  /\ gen.consumer = "read_all" /\ gen.status = "raised" /\ out = <<>>
  /\ Glob(gen.directory) # {}
  /\ call.op = "read_all_csv" /\ pc = "idle"
  /\ list_of_all_files # <<>> /\ all_df = <<>>
  /\ ret = PyRaise("ValueError")

\* C9: in a recursive listing, the entries of one directory are contiguous
\* in the sequence yielded.
RecursiveListingIsContiguous ==
  (call.op = "get_list_of_file_paths_in_dir" /\ gen.subfolders) =>
     \A i \in 1..Len(out), j \in 1..Len(out), k \in 1..Len(out) :
        (i < j /\ j < k /\ Dirname(out[i]) = Dirname(out[k])) =>
           Dirname(out[j]) = Dirname(out[i])

\* C10: when download_dir has completed, every key under the prefix that
\* does not end in the separator was downloaded exactly once, to local_root
\* joined with the key; every file written is under local_root; no
\* directory marker was downloaded.
DownloadMirrorsUnderRoot ==
  (pc = "idle" /\ call.op = "download_dir") =>
     LET root == IF EndsWith(call.a2, os_sep) THEN call.a2 ELSE call.a2 \o os_sep
     IN  /\ \A k \in DOMAIN bucket :
              (StartsWith(k, call.a1) /\ ~EndsWith(k, os_sep)) =>
                 /\ Cardinality({i \in 1..Len(downloads) : downloads[i].key = k}) = 1
                 /\ \A i \in 1..Len(downloads) :
                      downloads[i].key = k => downloads[i].path = Join2(call.a2, k)
         /\ \A i \in 1..Len(downloads) :
              /\ StartsWith(downloads[i].path, root)
              /\ ~EndsWith(downloads[i].key, os_sep)

====
